---- MODULE Spec2Model ----
(***************************************************************************)
(* Workflow state machine and playback control of the text explainer       *)
(* (App component, src/unnamed/part_001) together with the AI service      *)
(* wrappers of src/services/geminiService.ts.                              *)
(*                                                                         *)
(* One action per event handler or per continuation of an `await`; the    *)
(* values a handler closes over at the time it is invoked (question,      *)
(* volume, playbackRate) travel with the pending invocation.               *)
(***************************************************************************)
EXTENDS Integers, Sequences, FiniteSets, Bags, TLC

\* ------------------------------------------------------------------ bounds
\* handler invocations that may be suspended at an await at the same time
MaxTasks == 2
\* buffer sources alive (sounding, or with their ended event still queued)
MaxSources == 2
\* entries of the question/answer exchange log
MaxLog == 2

\* ------------------------------------------------------- AppState (types.ts)
Idle == "IDLE"
Analyzing == "ANALYZING"
Synthesizing == "SYNTHESIZING"
Playing == "PLAYING"
Summarizing == "SUMMARIZING"
Answering == "ANSWERING"
Error == "ERROR"
AppState == {Idle, Analyzing, Synthesizing, Playing, Summarizing, Answering, Error}

\* ---------------------------------------------------------------- messages
EmptyAnalyzeMsg == "enter text to analyze"
EmptySummarizeMsg == "enter text to summarize"
UnknownErrorMsg == "unknown error"
AnalyzeFailedMsg == "Failed to analyze the text."
SummarizeFailedMsg == "Failed to summarize the text."
AnswerFailedMsg == "Failed to answer the question."
SpeechFailedMsg == "Failed to generate speech."
ScriptTitle == "generated script"
SummaryTitle == "summary"

\* ------------------------------------------------------------------ inputs
\* user texts are sequences of characters, so that trim() is computed
Space == " "
InputTexts == {<< >>, <<Space>>, <<"a">>}
Questions == {<< >>, <<Space>>, <<"q">>}
\* texts the AI service returns
AiTexts == {"r1"}
\* sliders: volume in percent, rate in tenths; min and max of each range input
DefaultVolume == 100
DefaultRate == 10
VolumeMin == 0
VolumeMax == 100
RateMin == 5
RateMax == 20
\* positions asked of the sliders, beyond the ends of the range included
Volumes == {-10, DefaultVolume}
Rates == {DefaultRate, 30}
\* values a platform call may throw: an Error with a message, or a non-Error
PlatformErrors == {[isError |-> TRUE, message |-> "NotAllowedError"],
                   [isError |-> FALSE, message |-> ""]}
\* base64 text is a sequence of digits 0..63, Pad for '=' and Bad for a
\* character outside the alphabet
Pad == 64
Bad == 65

\* the base64 text the speech service makes of PCM bytes
RECURSIVE Base64Of(_)
Base64Of(bytes) ==
    IF bytes = << >> THEN << >>
    ELSE LET n == Len(bytes)
             b1 == bytes[1]
             b2 == IF n >= 2 THEN bytes[2] ELSE 0
             b3 == IF n >= 3 THEN bytes[3] ELSE 0
         IN  <<b1 \div 4,
               (b1 % 4) * 16 + b2 \div 16,
               IF n >= 2 THEN (b2 % 16) * 4 + b3 \div 64 ELSE Pad,
               IF n >= 3 THEN b3 % 64 ELSE Pad>>
             \o (IF n > 3 THEN Base64Of(SubSeq(bytes, 4, n)) ELSE << >>)

\* inline audio payloads of a speech response: data is the base64 text;
\* pcm, b64ok and nbytes say which bytes the service encoded
NoPayload == [present |-> FALSE, b64ok |-> FALSE, nbytes |-> 0,
              pcm |-> << >>, data |-> << >>]
Payload(bytes) == [present |-> TRUE, b64ok |-> TRUE, nbytes |-> Len(bytes),
                   pcm |-> bytes, data |-> Base64Of(bytes)]
Malformed(bytes) == [present |-> TRUE, b64ok |-> FALSE, nbytes |-> Len(bytes),
                     pcm |-> bytes, data |-> <<Bad>> \o Tail(Base64Of(bytes))]
Payloads == {Payload(<<0, 128>>), Payload(<<1, 0, 255>>),
             Malformed(<<1, 0, 255, 127>>)}
SpeechResponses ==
    [apiError : {FALSE}, data : Payloads \cup {NoPayload}]
        \cup {[apiError |-> TRUE, data |-> NoPayload]}
TextResponses ==
    [apiError : {FALSE}, text : AiTexts] \cup {[apiError |-> TRUE, text |-> ""]}

\* ------------------------------------------------------------------- state
VARIABLES
    status,          \* useState<AppState>
    errorMessage,    \* useState<string>
    inputText,       \* textarea content
    question,        \* question input content
    resultContent,   \* displayed result text
    resultTitle,     \* displayed result title
    qaHistory,       \* exchange log
    history,         \* in-memory history log
    stored,          \* localStorage item 'textHistory'
    audioBuffer,     \* decoded audio kept for export
    volume,          \* volume slider
    playbackRate,    \* speed slider
    audioContextRef, \* TRUE once the AudioContext exists
    gainNodeRef,     \* the gain node: [made, gain]
    audioSourceRef,  \* id of the referenced source, 0 for null
    sources,         \* the platform's buffer sources, by id
    tasks,           \* handler invocations suspended at an await
    observed,        \* statuses rendered since a fresh analyze submission
    downloaded       \* the file last offered for saving

vars == <<status, errorMessage, inputText, question, resultContent, resultTitle,
          qaHistory, history, stored, audioBuffer, volume, playbackRate,
          audioContextRef, gainNodeRef, audioSourceRef, sources, tasks, observed,
          downloaded>>

view == <<inputText, question, resultContent, resultTitle, qaHistory>>
hist == <<history, stored>>
audio == <<audioBuffer, audioContextRef, gainNodeRef, audioSourceRef, sources>>
sliders == <<volume, playbackRate>>

\* ----------------------------------------------------------------- helpers
NoAudio == [present |-> FALSE, sampleRate |-> 0, channels |-> << >>]
NoGain == [made |-> FALSE, gain |-> 0]
NoFile == [name |-> "", text |-> "", bytes |-> << >>]

RECURSIVE TrimStart(_)
TrimStart(t) == IF t # << >> /\ Head(t) = Space THEN TrimStart(Tail(t)) ELSE t

RECURSIVE TrimEnd(_)
TrimEnd(t) ==
    IF t # << >> /\ t[Len(t)] = Space THEN TrimEnd(SubSeq(t, 1, Len(t) - 1)) ELSE t

\* String.prototype.trim
Trim(t) == TrimEnd(TrimStart(t))

\* variant: the test without trim()
IsBlankNoTrim(t) == t = << >>

\* !text.trim()
IsBlank(t) == Trim(t) = << >>

\* variant: the busy flag without Answering
isProcessingNoAnswering == status \in {Analyzing, Synthesizing, Summarizing}

\* busy flag derived from the status
isProcessing == status \in {Analyzing, Synthesizing, Summarizing, Answering}

\* variant: no fallback for a thrown value that is not an Error
ErrorTextNoFallback(e) == e.message

\* error instanceof Error ? error.message : fallback
ErrorText(e) == IF e.isError THEN e.message ELSE UnknownErrorMsg

\* history keeps its first 20 entries
HistoryLimit == 20

\* variant: the new entry is put in front without removing its old occurrence
addToHistoryNoFilter(text, h) ==
    LET all == <<text>> \o h
    IN  SubSeq(all, 1, IF Len(all) < HistoryLimit THEN Len(all) ELSE HistoryLimit)

\* [text, ...history.filter(item => item !== text)].slice(0, 20)
addToHistory(text, h) ==
    LET all == <<text>> \o SelectSeq(h, LAMBDA item : item # text)
    IN  SubSeq(all, 1, IF Len(all) < HistoryLimit THEN Len(all) ELSE HistoryLimit)

\* values of the history state: an array of strings, or what else JSON.parse
\* may return (an object such as {})
Arr(h) == [type |-> "array", items |-> h]
NotArray == [type |-> "object", items |-> << >>]

\* the localStorage item 'textHistory': absent (null), a text that is the JSON
\* form of a value, a text that is not JSON, or a store that cannot be read
NoItem == [kind |-> "absent", value |-> Arr(<< >>)]
CorruptItem == [kind |-> "corrupt", value |-> Arr(<< >>)]
UnreadableItem == [kind |-> "unreadable", value |-> Arr(<< >>)]
JSONstringify(v) == [kind |-> "json", value |-> v]

\* JSON.parse: the value of a JSON text, a SyntaxError otherwise
JSONparse(item) ==
    IF item.kind = "json"
    THEN [ok |-> TRUE, value |-> item.value]
    ELSE [ok |-> FALSE, value |-> Arr(<< >>)]

\* try { if (storedHistory) setHistory(JSON.parse(storedHistory)) } catch {}
\* the state keeps its initial [] when nothing is stored or an error is caught
loadHistory(item) ==
    IF item.kind \in {"absent", "unreadable"} THEN Arr(<< >>)
    ELSE LET parsed == JSONparse(item)
         IN  IF parsed.ok THEN parsed.value ELSE Arr(<< >>)

\* addToHistory called by a handler: history.filter throws on a history that
\* is not an array, localStorage.setItem may throw after setHistory
AddToHistoryCall(text, storeOk) ==
    IF history.type # "array"
    THEN [history |-> history, stored |-> stored, ok |-> FALSE]
    ELSE LET newHistory == Arr(addToHistory(text, history.items))
         IN  [history |-> newHistory,
              stored |-> IF storeOk THEN JSONstringify(newHistory) ELSE stored,
              ok |-> storeOk]

\* variant (the stopPlayback of part_000): the status becomes Idle whatever it was
stopPlaybackSetsIdle(srcs, ref, st) ==
    [sources |-> IF ref # 0
                 THEN [srcs EXCEPT ![ref].state =
                          IF @ = "sounding" THEN "stopped" ELSE @]
                 ELSE srcs,
     ref |-> 0,
     status |-> Idle]

\* stopPlayback: stop and drop the referenced source; Playing becomes Idle.
\* stop() silences a sounding source and queues its ended event.
stopPlaybackOn(srcs, ref, st) ==
    [sources |-> IF ref # 0
                 THEN [srcs EXCEPT ![ref].state =
                          IF @ = "sounding" THEN "stopped" ELSE @]
                 ELSE srcs,
     ref |-> 0,
     status |-> IF st = Playing THEN Idle ELSE st]

stopPlayback == stopPlaybackOn(sources, audioSourceRef, status)

\* a handler invocation suspended at an await, with what its closure holds
NewTask(pc, q, v, r) ==
    [pc |-> pc, question |-> q, script |-> "", payload |-> NoPayload,
     volume |-> v, rate |-> r]

AnalyzePcs == {"analysis", "speech", "resume", "decode"}
\* the suspended invocations form a bag: they have no order among themselves
Pending == BagToSet(tasks)
Without(t) == tasks (-) SetToBag({t})
Count(pcs) == BagCardinality([t \in {u \in Pending : u.pc \in pcs} |-> tasks[t]])
\* sources holds the started sources whose ended event has not been handled
\* yet, oldest first; a source is named by its place in it
SourceIds == DOMAIN sources
Live == SourceIds
Sounding == {s \in SourceIds : sources[s].state = "sounding"}
RemoveAt(seq, i) == SubSeq(seq, 1, i - 1) \o SubSeq(seq, i + 1, Len(seq))
Quiescent == Pending = {} /\ Live = {}

\* statuses rendered so far in a tracked run
Observe(st) ==
    IF observed = << >> \/ observed[Len(observed)] = st THEN observed
    ELSE Append(observed, st)

\* ------------------------------------------------------------------- Init
InitialItems ==
    {NoItem, JSONstringify(Arr(<< >>)), JSONstringify(Arr(<<<<"a">>>>))}

InitFrom(items) ==
    /\ status = Idle
    /\ errorMessage = ""
    /\ inputText = << >>
    /\ question = << >>
    /\ resultContent = ""
    /\ resultTitle = ""
    /\ qaHistory = << >>
    /\ stored \in items
    /\ history = loadHistory(stored)
    /\ audioBuffer = NoAudio
    /\ downloaded = NoFile
    /\ volume = DefaultVolume
    /\ playbackRate = DefaultRate
    /\ audioContextRef = FALSE
    /\ gainNodeRef = NoGain
    /\ audioSourceRef = 0
    /\ sources = << >>
    /\ tasks = EmptyBag
    /\ observed = << >>

Init == InitFrom(InitialItems)

\* ------------------------------------------------------------ user actions
\* textarea onChange (disabled while busy)
SetInputText(t) ==
    /\ ~isProcessing
    /\ t # inputText
    /\ inputText' = t
    /\ observed' = << >>
    /\ UNCHANGED <<status, errorMessage, question, resultContent, resultTitle,
                   qaHistory, hist, downloaded, audio, sliders, tasks>>

\* a button of the history list: setInputText(item)
PickHistory(i) ==
    /\ history.type = "array"
    /\ i \in 1..Len(history.items)
    /\ inputText' = history.items[i]
    /\ observed' = << >>
    /\ UNCHANGED <<status, errorMessage, question, resultContent, resultTitle,
                   qaHistory, hist, downloaded, audio, sliders, tasks>>

\* question input onChange (shown with a result, disabled while Answering)
SetQuestion(q) ==
    /\ resultContent # ""
    /\ status # Answering
    /\ q # question
    /\ question' = q
    /\ observed' = << >>
    /\ UNCHANGED <<status, errorMessage, inputText, resultContent, resultTitle,
                   qaHistory, hist, downloaded, audio, sliders, tasks>>

\* handleProcessText, up to its first await
ProcessText(storeOk) ==
    /\ status # Playing
    /\ ~isProcessing
    /\ IF IsBlank(inputText)
       THEN /\ storeOk
            /\ errorMessage' = EmptyAnalyzeMsg
            /\ status' = Error
            /\ observed' = << >>
            /\ UNCHANGED <<view, hist, downloaded, audio, sliders, tasks>>
       ELSE /\ BagCardinality(tasks) < MaxTasks
            /\ Cardinality(Live) + Count(AnalyzePcs) < MaxSources
            /\ sources' = stopPlayback.sources
            /\ audioSourceRef' = stopPlayback.ref
            /\ status' = Analyzing
            /\ resultContent' = ""
            /\ resultTitle' = ""
            /\ errorMessage' = ""
            /\ qaHistory' = << >>
            /\ audioBuffer' = NoAudio
            \* when addToHistory throws the handler ends before its try
            /\ LET added == AddToHistoryCall(inputText, storeOk) IN
                 /\ history' = added.history
                 /\ stored' = added.stored
                 /\ tasks' = IF added.ok
                             THEN tasks (+) SetToBag({NewTask("analysis", << >>, volume, playbackRate)})
                             ELSE tasks
            /\ observed' = IF tasks' # tasks /\ status = Idle /\ Quiescent
                           THEN <<Idle, Analyzing>> ELSE << >>
            /\ UNCHANGED <<inputText, question, sliders, audioContextRef, gainNodeRef,
                           downloaded>>

\* handleSummarizeText, up to its await
SummarizeText(storeOk) ==
    /\ ~isProcessing
    /\ observed' = << >>
    /\ IF IsBlank(inputText)
       THEN /\ storeOk
            /\ errorMessage' = EmptySummarizeMsg
            /\ status' = Error
            /\ UNCHANGED <<view, hist, downloaded, audio, sliders, tasks>>
       ELSE /\ BagCardinality(tasks) < MaxTasks
            /\ sources' = stopPlayback.sources
            /\ audioSourceRef' = stopPlayback.ref
            /\ status' = Summarizing
            /\ resultContent' = ""
            /\ resultTitle' = ""
            /\ errorMessage' = ""
            /\ qaHistory' = << >>
            /\ LET added == AddToHistoryCall(inputText, storeOk) IN
                 /\ history' = added.history
                 /\ stored' = added.stored
                 /\ tasks' = IF added.ok
                             THEN tasks (+) SetToBag({NewTask("summarize", << >>, 0, 0)})
                             ELSE tasks
            /\ UNCHANGED <<inputText, question, sliders, audioBuffer,
                           audioContextRef, gainNodeRef, downloaded>>

\* variant: a question resets playback and the log as a submission does
AskQuestionResets ==
    /\ resultContent # ""
    /\ status # Answering
    /\ IF IsBlank(question)
       THEN UNCHANGED vars
       ELSE /\ BagCardinality(tasks) < MaxTasks
            /\ Len(qaHistory) + Count({"answer"}) < MaxLog
            /\ sources' = stopPlayback.sources
            /\ audioSourceRef' = stopPlayback.ref
            /\ qaHistory' = << >>
            /\ status' = Answering
            /\ errorMessage' = ""
            /\ tasks' = tasks (+) SetToBag({NewTask("answer", question, 0, 0)})
            /\ observed' = << >>
            /\ UNCHANGED <<inputText, question, resultContent, resultTitle, hist, downloaded,
                           sliders, audioBuffer, audioContextRef, gainNodeRef>>

\* variant: a question is recorded in the history as a submitted text is
AskQuestionRecords ==
    /\ resultContent # ""
    /\ status # Answering
    /\ IF IsBlank(question)
       THEN UNCHANGED vars
       ELSE /\ BagCardinality(tasks) < MaxTasks
            /\ Len(qaHistory) + Count({"answer"}) < MaxLog
            /\ status' = Answering
            /\ errorMessage' = ""
            /\ tasks' = tasks (+) SetToBag({NewTask("answer", question, 0, 0)})
            /\ observed' = << >>
            /\ history' = AddToHistoryCall(question, TRUE).history
            /\ stored' = AddToHistoryCall(question, TRUE).stored
            /\ UNCHANGED <<view, audio, sliders, downloaded>>

\* variant: a blank question is reported as a blank text is
AskQuestionRejectsBlank ==
    /\ resultContent # ""
    /\ status # Answering
    /\ IF IsBlank(question)
       THEN /\ errorMessage' = EmptyAnalyzeMsg
            /\ status' = Error
            /\ observed' = << >>
            /\ UNCHANGED <<view, hist, downloaded, audio, sliders, tasks>>
       ELSE /\ BagCardinality(tasks) < MaxTasks
            /\ Len(qaHistory) + Count({"answer"}) < MaxLog
            /\ status' = Answering
            /\ errorMessage' = ""
            /\ tasks' = tasks (+) SetToBag({NewTask("answer", question, 0, 0)})
            /\ observed' = << >>
            /\ UNCHANGED <<view, hist, downloaded, audio, sliders>>

\* the context text handleAskQuestion passes to the answer call, which is
\* issued in the step of the submission: answerQuestion(inputText, question)
AnswerContext == inputText

\* handleAskQuestion, up to its await (form shown with a result, disabled
\* while Answering)
AskQuestion ==
    /\ resultContent # ""
    /\ status # Answering
    /\ IF IsBlank(question)
       THEN UNCHANGED vars
       ELSE /\ BagCardinality(tasks) < MaxTasks
            /\ Len(qaHistory) + Count({"answer"}) < MaxLog
            /\ status' = Answering
            /\ errorMessage' = ""
            /\ tasks' = tasks (+) SetToBag({NewTask("answer", question, 0, 0)})
            /\ observed' = << >>
            /\ UNCHANGED <<view, hist, downloaded, audio, sliders>>

\* the stop button (shown while Playing): stopPlayback
StopClick ==
    /\ status = Playing
    /\ sources' = stopPlayback.sources
    /\ audioSourceRef' = stopPlayback.ref
    /\ status' = stopPlayback.status
    /\ observed' = << >>
    /\ UNCHANGED <<errorMessage, view, hist, downloaded, sliders, tasks, audioBuffer,
                   audioContextRef, gainNodeRef>>

\* variant: a range input that takes any value
RangeValueAny(min, max, raw) == raw

\* the value of an <input type="range">: kept within min..max by the element
RangeValue(min, max, raw) ==
    IF raw < min THEN min ELSE IF raw > max THEN max ELSE raw

\* handleVolumeChange
handleVolumeChange(raw) ==
    LET newVolume == RangeValue(VolumeMin, VolumeMax, raw) IN
    /\ newVolume # volume
    /\ volume' = newVolume
    /\ gainNodeRef' = IF gainNodeRef.made /\ audioContextRef
                      THEN [gainNodeRef EXCEPT !.gain = newVolume] ELSE gainNodeRef
    /\ observed' = << >>
    /\ UNCHANGED <<status, errorMessage, view, hist, downloaded, tasks, playbackRate,
                   audioBuffer, audioContextRef, audioSourceRef, sources>>

\* handlePlaybackRateChange
handlePlaybackRateChange(raw) ==
    LET newRate == RangeValue(RateMin, RateMax, raw) IN
    /\ newRate # playbackRate
    /\ playbackRate' = newRate
    /\ sources' = IF audioSourceRef # 0
                  THEN [sources EXCEPT ![audioSourceRef].rate = newRate] ELSE sources
    /\ observed' = << >>
    /\ UNCHANGED <<status, errorMessage, view, hist, downloaded, tasks, volume,
                   audioBuffer, audioContextRef, gainNodeRef, audioSourceRef>>

\* ------------------------------------------------------- service wrappers
Thrown(msg) == [isError |-> TRUE, message |-> msg]
Returned(v) == [ok |-> TRUE, value |-> v, error |-> Thrown("")]
Rejected(e) == [ok |-> FALSE, value |-> "", error |-> e]

\* each wrapper rethrows every failure as an Error with its own message
analyzeTextWithThinking(resp) ==
    IF resp.apiError THEN Rejected(Thrown(AnalyzeFailedMsg)) ELSE Returned(resp.text)

summarizeText(resp) ==
    IF resp.apiError THEN Rejected(Thrown(SummarizeFailedMsg)) ELSE Returned(resp.text)

answerQuestion(resp) ==
    IF resp.apiError THEN Rejected(Thrown(AnswerFailedMsg)) ELSE Returned(resp.text)

\* a response without inline data is thrown inside the try and rethrown alike
generateSpeech(resp) ==
    IF resp.apiError \/ ~resp.data.present
    THEN Rejected(Thrown(SpeechFailedMsg))
    ELSE [ok |-> TRUE, value |-> resp.data, error |-> Thrown("")]

\* ------------------------------------------------------------ audio codec
Channels == 1

SampleRate == 24000

\* well-formed base64: groups of four characters of the alphabet, padding
\* only at the end of the last group
IsBase64(text) ==
    /\ Len(text) % 4 = 0
    /\ \A k \in 1..Len(text) :
          \/ text[k] \in 0..63
          \/ /\ text[k] = Pad
             /\ k >= Len(text) - 1
             /\ k = Len(text) - 1 => text[Len(text)] = Pad

RECURSIVE Base64Bytes(_)
Base64Bytes(text) ==
    IF text = << >> THEN << >>
    ELSE LET a == text[1]
             b == text[2]
             c == text[3]
             d == text[4]
             b1 == a * 4 + b \div 16
             b2 == (b % 16) * 16 + c \div 4
             b3 == (c % 4) * 64 + d
         IN  (IF c = Pad THEN <<b1>> ELSE IF d = Pad THEN <<b1, b2>>
              ELSE <<b1, b2, b3>>)
             \o Base64Bytes(SubSeq(text, 5, Len(text)))

\* base64 text to bytes: fails on text that is not base64
decode(payload) ==
    IF IsBase64(payload.data)
    THEN [ok |-> TRUE, value |-> Base64Bytes(payload.data), error |-> Thrown("")]
    ELSE [ok |-> FALSE, value |-> << >>, error |-> Thrown("InvalidCharacterError")]

\* variant: the two bytes read as an unsigned integer
Int16Unsigned(lo, hi) == lo + 256 * hi

\* a little-endian signed 16-bit integer
Int16LE(lo, hi) ==
    LET u == lo + 256 * hi IN IF u >= 32768 THEN u - 65536 ELSE u

\* variant: the bytes after the last whole frame are dropped
decodeAudioDataLenient(bytes, sampleRate, numChannels) ==
    [ok |-> TRUE,
     value |-> [present |-> TRUE,
                sampleRate |-> sampleRate,
                channels |->
                  [c \in 1..numChannels |->
                     [f \in 1..(Len(bytes) \div (2 * numChannels)) |->
                        LET k == (f - 1) * numChannels + c
                        IN  Int16LE(bytes[2 * k - 1], bytes[2 * k])]]],
     error |-> Thrown("")]

\* bytes to samples, one sequence per channel; a sample n stands for the
\* float n / 32768.0. Fails unless the length is a multiple of 2 * channels
decodeAudioData(bytes, sampleRate, numChannels) ==
    IF Len(bytes) % (2 * numChannels) # 0
    THEN [ok |-> FALSE, value |-> NoAudio, error |-> Thrown("DecodeError")]
    ELSE [ok |-> TRUE,
          value |-> [present |-> TRUE,
                     sampleRate |-> sampleRate,
                     channels |->
                       [c \in 1..numChannels |->
                          [f \in 1..(Len(bytes) \div (2 * numChannels)) |->
                             LET k == (f - 1) * numChannels + c
                             IN  Int16LE(bytes[2 * k - 1], bytes[2 * k])]]],
          error |-> Thrown("")]

\* little-endian bytes of an unsigned integer
LE16(v) == <<v % 256, (v \div 256) % 256>>
LE32(v) == LE16(v % 65536) \o LE16(v \div 65536)

\* a float sample n / 32768.0 clamped to [-1, 1] and scaled to a signed
\* 16-bit integer, rounded to nearest
Quantize(n) ==
    LET c == IF n < -32768 THEN -32768 ELSE IF n > 32768 THEN 32768 ELSE n
    IN  (2 * c * 32767 + 32768) \div (2 * 32768)

\* the interleaved 16-bit samples of a buffer, as little-endian bytes
RECURSIVE WavData(_, _)
WavData(channels, k) ==
    LET nch == Len(channels)
        total == IF nch = 0 THEN 0 ELSE nch * Len(channels[1])
    IN  IF k > total THEN << >>
        ELSE LET q == Quantize(channels[((k - 1) % nch) + 1][((k - 1) \div nch) + 1])
             IN  LE16(IF q < 0 THEN q + 65536 ELSE q) \o WavData(channels, k + 1)

WavHeaderLen == 44

\* a buffer as a WAV file: the 44-byte RIFF/WAVE header of 16-bit PCM, then
\* the samples
audioBufferToWav(buffer) ==
    LET data == WavData(buffer.channels, 1)
        nch == Len(buffer.channels)
    IN  <<82, 73, 70, 70>> \o LE32(36 + Len(data)) \o <<87, 65, 86, 69>>
        \o <<102, 109, 116, 32>> \o LE32(16) \o LE16(1) \o LE16(nch)
        \o LE32(buffer.sampleRate) \o LE32(buffer.sampleRate * nch * 2)
        \o LE16(nch * 2) \o LE16(16)
        \o <<100, 97, 116, 97>> \o LE32(Len(data)) \o data

\* handleDownload: the script button (shown with a result) saves the result
\* text, the audio button (shown with a result and a decoded buffer) the WAV
\* file of the buffer
handleDownload(type) ==
    /\ resultContent # ""
    /\ type = "audio" => audioBuffer.present
    /\ downloaded' = IF type = "script"
                     THEN [name |-> "script.txt", text |-> resultContent,
                           bytes |-> << >>]
                     ELSE [name |-> "explanation.wav", text |-> "",
                           bytes |-> audioBufferToWav(audioBuffer)]
    /\ UNCHANGED <<status, errorMessage, view, hist, audio, sliders, tasks,
                   observed>>

\* new AudioContext(...), audioContext.resume(): fine, or a thrown value
PlatformOutcomes == {Returned("")} \cup {Rejected(e) : e \in PlatformErrors}

\* gain of a node fresh from createGain()
DefaultGain == 100

\* ----------------------------------------------------------- continuations
\* the catch block of a handler: the invocation ends in Error
\* variant: the catch block also discards the displayed result
CatchClearsResult(t, e) ==
    /\ errorMessage' = ErrorText(e)
    /\ status' = Error
    /\ tasks' = Without(t)
    /\ observed' = Observe(Error)
    /\ resultContent' = ""
    /\ resultTitle' = ""
    /\ UNCHANGED <<inputText, question, qaHistory, hist, downloaded, sliders>>

\* variant: the catch block reports the error and leaves the call to be tried again
CatchRetries(t, e) ==
    /\ errorMessage' = ErrorText(e)
    /\ status' = Error
    /\ tasks' = tasks
    /\ observed' = Observe(Error)
    /\ UNCHANGED <<view, hist, downloaded, sliders>>

Catch(t, e) ==
    /\ errorMessage' = ErrorText(e)
    /\ status' = Error
    /\ tasks' = Without(t)
    /\ observed' = Observe(Error)
    /\ UNCHANGED <<view, hist, downloaded, sliders>>

\* variant: the speech call is issued without the script that was returned
AnalysisReturnsDropsScript(t, resp) ==
    /\ t \in Pending
    /\ t.pc = "analysis"
    /\ LET r == analyzeTextWithThinking(resp) IN
       IF r.ok
       THEN /\ resultContent' = r.value
            /\ resultTitle' = ScriptTitle
            /\ status' = Synthesizing
            /\ tasks' = Without(t) (+) SetToBag({[t EXCEPT !.pc = "speech"]})
            /\ observed' = Observe(Synthesizing)
            /\ UNCHANGED <<errorMessage, inputText, question, qaHistory, hist, downloaded,
                           audio, sliders>>
       ELSE /\ Catch(t, r.error)
            /\ UNCHANGED audio

\* handleProcessText resumes after await analyzeTextWithThinking
AnalysisReturns(t, resp) ==
    /\ t \in Pending
    /\ t.pc = "analysis"
    /\ LET r == analyzeTextWithThinking(resp) IN
       IF r.ok
       THEN /\ resultContent' = r.value
            /\ resultTitle' = ScriptTitle
            /\ status' = Synthesizing
            /\ tasks' = Without(t) (+)
                         SetToBag({[t EXCEPT !.pc = "speech", !.script = r.value]})
            /\ observed' = Observe(Synthesizing)
            /\ UNCHANGED <<errorMessage, inputText, question, qaHistory, hist, downloaded,
                           audio, sliders>>
       ELSE /\ Catch(t, r.error)
            /\ UNCHANGED audio

\* ... after await generateSpeech: the AudioContext is made on first use
SpeechReturns(t, resp, made) ==
    /\ t \in Pending
    /\ t.pc = "speech"
    /\ (audioContextRef => made.ok)
    /\ LET r == generateSpeech(resp) IN
       IF ~r.ok
       THEN /\ made.ok
            /\ Catch(t, r.error)
            /\ UNCHANGED audio
       ELSE IF ~audioContextRef /\ ~made.ok
       THEN /\ Catch(t, made.error)
            /\ UNCHANGED audio
       ELSE /\ audioContextRef' = TRUE
            /\ tasks' = Without(t) (+)
                         SetToBag({[t EXCEPT !.pc = "resume", !.payload = r.value]})
            /\ UNCHANGED <<status, errorMessage, view, hist, downloaded, sliders, audioBuffer,
                           gainNodeRef, audioSourceRef, sources, observed>>

\* ... after await audioContext.resume(): gain node, then decode
ResumeReturns(t, resumed) ==
    /\ t \in Pending
    /\ t.pc = "resume"
    /\ IF ~resumed.ok
       THEN /\ Catch(t, resumed.error)
            /\ UNCHANGED audio
       ELSE /\ gainNodeRef' = IF gainNodeRef.made THEN gainNodeRef
                              ELSE [made |-> TRUE, gain |-> DefaultGain]
            /\ LET d == decode(t.payload) IN
               IF d.ok
               THEN /\ tasks' = Without(t) (+) SetToBag({[t EXCEPT !.pc = "decode"]})
                    /\ UNCHANGED <<status, errorMessage, observed, view, hist, downloaded, sliders>>
               ELSE Catch(t, d.error)
            /\ UNCHANGED <<audioBuffer, audioContextRef, audioSourceRef, sources>>

\* ... after await decodeAudioData: keep the buffer, start a source
DecodeReturns(t) ==
    /\ t \in Pending
    /\ t.pc = "decode"
    /\ LET d == decodeAudioData(decode(t.payload).value, SampleRate, Channels) IN
       IF ~d.ok
       THEN /\ Catch(t, d.error)
            /\ UNCHANGED audio
       ELSE /\ audioBuffer' = d.value
            /\ sources' = Append(sources, [state |-> "sounding", rate |-> t.rate])
            /\ gainNodeRef' = [gainNodeRef EXCEPT !.gain = t.volume]
            /\ audioSourceRef' = Len(sources')
            /\ status' = Playing
            /\ tasks' = Without(t)
            /\ observed' = Observe(Playing)
            /\ UNCHANGED <<errorMessage, view, hist, downloaded, sliders, audioContextRef>>

\* handleSummarizeText resumes after await summarizeText
SummarizeReturns(t, resp) ==
    /\ t \in Pending
    /\ t.pc = "summarize"
    /\ LET r == summarizeText(resp) IN
       IF r.ok
       THEN /\ resultContent' = r.value
            /\ resultTitle' = SummaryTitle
            /\ status' = Idle
            /\ tasks' = Without(t)
            /\ observed' = Observe(Idle)
            /\ UNCHANGED <<errorMessage, inputText, question, qaHistory, hist, downloaded,
                           audio, sliders>>
       ELSE /\ Catch(t, r.error)
            /\ UNCHANGED audio

\* variant: the question is cleared whether the answer call failed or not
AnswerReturnsClearsQuestion(t, resp) ==
    /\ t \in Pending
    /\ t.pc = "answer"
    /\ LET r == answerQuestion(resp) IN
       /\ question' = << >>
       /\ tasks' = Without(t)
       /\ IF r.ok
          THEN /\ qaHistory' = Append(qaHistory, [question |-> t.question,
                                                  answer |-> r.value])
               /\ status' = Idle
               /\ observed' = Observe(Idle)
               /\ UNCHANGED errorMessage
          ELSE /\ errorMessage' = ErrorText(r.error)
               /\ status' = Error
               /\ observed' = Observe(Error)
               /\ UNCHANGED qaHistory
       /\ UNCHANGED <<inputText, resultContent, resultTitle, hist, downloaded,
                      audio, sliders>>

\* handleAskQuestion resumes after await answerQuestion
AnswerReturns(t, resp) ==
    /\ t \in Pending
    /\ t.pc = "answer"
    /\ LET r == answerQuestion(resp) IN
       IF r.ok
       THEN /\ qaHistory' = Append(qaHistory, [question |-> t.question,
                                               answer |-> r.value])
            /\ question' = << >>
            /\ status' = Idle
            /\ tasks' = Without(t)
            /\ observed' = Observe(Idle)
            /\ UNCHANGED <<errorMessage, inputText, resultContent, resultTitle,
                           hist, downloaded, audio, sliders>>
       ELSE /\ Catch(t, r.error)
            /\ UNCHANGED audio

\* ---------------------------------------------------------- audio platform
\* a started source reaches the end of its buffer: its ended event is queued
SourceEnds(s) ==
    /\ s \in SourceIds
    /\ sources[s].state = "sounding"
    /\ sources' = [sources EXCEPT ![s].state = "ended"]
    /\ UNCHANGED <<status, errorMessage, view, hist, downloaded, sliders, tasks, observed,
                   audioBuffer, audioContextRef, gainNodeRef, audioSourceRef>>

\* variant: the callback drops the reference but leaves the status
OnEndedKeepsStatus(s) ==
    /\ s \in SourceIds
    /\ sources[s].state \in {"ended", "stopped"}
    /\ audioSourceRef' = 0
    /\ sources' = RemoveAt(sources, s)
    /\ UNCHANGED <<status, observed, errorMessage, view, hist, downloaded, sliders, tasks,
                   audioBuffer, audioContextRef, gainNodeRef>>

\* source.onended, run for a source that ended or was stopped
OnEnded(s) ==
    /\ s \in SourceIds
    /\ sources[s].state \in {"ended", "stopped"}
    /\ status' = Idle
    /\ audioSourceRef' = 0
    /\ sources' = RemoveAt(sources, s)
    /\ observed' = Observe(Idle)
    /\ UNCHANGED <<errorMessage, view, hist, downloaded, sliders, tasks, audioBuffer,
                   audioContextRef, gainNodeRef>>

\* ------------------------------------------------------------------- Next
Next ==
    \/ \E t \in InputTexts : SetInputText(t)
    \/ \E i \in 1..Len(history.items) : PickHistory(i)
    \/ \E q \in Questions : SetQuestion(q)
    \/ \E storeOk \in BOOLEAN : ProcessText(storeOk)
    \/ \E storeOk \in BOOLEAN : SummarizeText(storeOk)
    \/ AskQuestion
    \/ StopClick
    \/ \E t \in Pending, resp \in TextResponses : AnalysisReturns(t, resp)
    \/ \E t \in Pending, resp \in SpeechResponses, made \in PlatformOutcomes :
          SpeechReturns(t, resp, made)
    \/ \E t \in Pending, resumed \in PlatformOutcomes : ResumeReturns(t, resumed)
    \/ \E t \in Pending : DecodeReturns(t)
    \/ \E t \in Pending, resp \in TextResponses : SummarizeReturns(t, resp)
    \/ \E t \in Pending, resp \in TextResponses : AnswerReturns(t, resp)
    \/ \E s \in SourceIds : SourceEnds(s)
    \/ \E s \in SourceIds : OnEnded(s)

\* The workflow: every handler and continuation except the two sliders, which
\* write only volume, playbackRate, the gain and the rate of the referenced
\* source, none of which a handler of Next reads except to start a source.
Spec == Init /\ [][Next]_vars

\* The workflow under the scheduling of the platform: a continuation runs
\* once its call has returned, and every call returns; a started source ends
\* and its ended callback runs.
CallReturns ==
    \/ \E t \in Pending, resp \in TextResponses : AnalysisReturns(t, resp)
    \/ \E t \in Pending, resp \in SpeechResponses, made \in PlatformOutcomes :
          SpeechReturns(t, resp, made)
    \/ \E t \in Pending, resumed \in PlatformOutcomes : ResumeReturns(t, resumed)
    \/ \E t \in Pending : DecodeReturns(t)
    \/ \E t \in Pending, resp \in TextResponses : SummarizeReturns(t, resp)
    \/ \E t \in Pending, resp \in TextResponses : AnswerReturns(t, resp)

SourceFinishes == \E s \in SourceIds : SourceEnds(s) \/ OnEnded(s)

SpecLive == Init /\ [][Next]_vars /\ WF_vars(CallReturns) /\ WF_vars(SourceFinishes)

\* The playback controller under the sliders: the analyze action, stop and
\* the audio platform, with the volume and speed sliders moved at any time.
NextAudio ==
    \/ \E text \in InputTexts : SetInputText(text)
    \/ \E storeOk \in BOOLEAN : ProcessText(storeOk)
    \/ StopClick
    \/ \E raw \in Volumes : handleVolumeChange(raw)
    \/ \E raw \in Rates : handlePlaybackRateChange(raw)
    \/ \E t \in Pending, resp \in TextResponses : AnalysisReturns(t, resp)
    \/ \E t \in Pending, resp \in SpeechResponses, made \in PlatformOutcomes :
          SpeechReturns(t, resp, made)
    \/ \E t \in Pending, resumed \in PlatformOutcomes : ResumeReturns(t, resumed)
    \/ \E t \in Pending : DecodeReturns(t)
    \/ \E s \in SourceIds : SourceEnds(s)
    \/ \E s \in SourceIds : OnEnded(s)

SpecAudio == Init /\ [][NextAudio]_vars

\* The audio codec: the analyze action over speech payloads of every sample
\* built from ByteValues, and the two download buttons.
ByteValues == {0, 1, 127, 128, 255}
CodecPayloads ==
    {Payload(<<lo, hi>>) : lo \in ByteValues, hi \in ByteValues}
    \cup {Payload(<<0, 128, 255, 127>>), Payload(<< >>), Payload(<<1, 0, 255>>),
          Payload(<<255>>), Malformed(<<1, 0, 255, 127>>),
          [Payload(<<0, 128>>) EXCEPT !.data = <<0, Pad, 0, 0>>],
          [Payload(<<0, 128>>) EXCEPT !.data = <<0, 0, Pad, 0>>],
          [Payload(<<0, 128>>) EXCEPT !.data = <<0, 0, 0>>]}
CodecResponses == [apiError : {FALSE}, data : CodecPayloads]

NextCodec ==
    \/ \E text \in InputTexts : SetInputText(text)
    \/ \E storeOk \in BOOLEAN : ProcessText(storeOk)
    \/ \E t \in Pending, resp \in TextResponses : AnalysisReturns(t, resp)
    \/ \E t \in Pending, resp \in CodecResponses : SpeechReturns(t, resp, Returned(""))
    \/ \E t \in Pending : ResumeReturns(t, Returned(""))
    \/ \E t \in Pending : DecodeReturns(t)
    \/ \E type \in {"script", "audio"} : handleDownload(type)

SpecCodec == InitFrom({NoItem}) /\ [][NextCodec]_vars

\* The history log: stores as another session, another program or the user
\* may have left them, and the handlers that record an entry (texts are
\* typed; picking entries of a long log only permutes it).
\* OldTexts(n) is a log of n distinct texts: "x", "xx", ...
OldTexts(n) == [k \in 1..n |-> [i \in 1..k |-> "x"]]

HistoryItems ==
    {NoItem, CorruptItem, UnreadableItem, JSONstringify(NotArray),
     JSONstringify(Arr(<< >>)), JSONstringify(Arr(<<<<"x">>, <<"a">>>>)),
     JSONstringify(Arr(<<<<"x">>, <<"x">>>>)),
     JSONstringify(Arr(OldTexts(HistoryLimit - 1))),
     JSONstringify(Arr(OldTexts(HistoryLimit)))}

InitHistory == InitFrom(HistoryItems)

NextHistory ==
    \/ \E text \in InputTexts : SetInputText(text)
    \/ \E storeOk \in BOOLEAN : ProcessText(storeOk)
    \/ \E storeOk \in BOOLEAN : SummarizeText(storeOk)
    \/ \E t \in Pending, resp \in TextResponses : AnalysisReturns(t, resp)
    \/ \E t \in Pending, resp \in TextResponses : SummarizeReturns(t, resp)

SpecHistory == InitHistory /\ [][NextHistory]_vars

TypeOK ==
    /\ status \in AppState
    /\ audioSourceRef \in 0..MaxSources
    /\ BagCardinality(tasks) <= MaxTasks
    /\ Len(qaHistory) <= MaxLog

\* ------------------------------------------------------------------ claims
AiCallPcs == {"analysis", "speech", "summarize", "answer"}
WhitespaceOnly(text) == \A k \in 1..Len(text) : text[k] = Space
Last(seq) == seq[Len(seq)]
IsPrefix(a, b) == Len(a) <= Len(b) /\ a = SubSeq(b, 1, Len(a))
AnalyzeStep == \E storeOk \in BOOLEAN : ProcessText(storeOk)
SummarizeStep == \E storeOk \in BOOLEAN : SummarizeText(storeOk)
AcceptedSubmit == (AnalyzeStep \/ SummarizeStep) /\ ~WhitespaceOnly(inputText)

\* C1: at most one audio source is sounding at any instant.
C1_SingleSoundingSource == Cardinality(Sounding) <= 1

\* C2: stop() while Playing yields Idle, and the ended callback of a source
\* that stop() was applied to changes neither the status nor the session
\* reference.
C2_StoppedCallbackInert ==
    [][ /\ (StopClick => status' = Idle)
        /\ \A s \in SourceIds :
              (sources[s].state = "stopped" /\ OnEnded(s))
                  => (status' = status /\ audioSourceRef' = audioSourceRef) ]_vars

\* C3: at most one external AI call is pending in every reachable state.
C3_OneCallInFlight == Count(AiCallPcs) <= 1

\* C4: analyze or summarize submitted with an empty or whitespace-only input
\* sets status Error with a non-empty message and issues no external call.
C4_BlankSubmitRejected ==
    [][ ((AnalyzeStep \/ SummarizeStep) /\ WhitespaceOnly(inputText))
            => (status' = Error /\ errorMessage' # "" /\ tasks' = tasks) ]_vars

C4_Witness ==
    /\ status = Error
    /\ errorMessage = EmptyAnalyzeMsg
    /\ inputText = <<Space>>
    /\ Pending = {}

\* C5: an analyze submission from Idle with nothing else going on, whose
\* steps all succeed, shows exactly Idle, Analyzing, Synthesizing, Playing,
\* and after the natural end of playback Idle again with the session
\* reference cleared.
ExpectedRun == <<Idle, Analyzing, Synthesizing, Playing, Idle>>

C5_SuccessfulRun ==
    (observed # << >> /\ Last(observed) # Error) =>
        /\ IsPrefix(observed, ExpectedRun)
        /\ status = Last(observed)
        /\ Len(observed) >= 2
        /\ (Len(observed) = 2 <=> Count({"analysis"}) = 1)
        /\ (Len(observed) = 3 <=> Count({"speech", "resume", "decode"}) = 1)
        /\ (Len(observed) = 4 <=> Live # {})
        /\ (Len(observed) = 4 => audioSourceRef = 1 /\ Len(sources) = 1)
        /\ (Len(observed) = 5 => audioSourceRef = 0 /\ Quiescent)

C5_Witness ==
    /\ observed = ExpectedRun
    /\ status = Idle
    /\ audioSourceRef = 0
    /\ audioBuffer.present

\* C6: when the analysis succeeded and the speech call or the decode fails,
\* the statuses shown are Idle, Analyzing, Synthesizing, Error, no source is
\* started and the script stays in the displayed result.
C6_SpeechFailureKeepsScript ==
    (Len(observed) >= 3 /\ observed[3] = Synthesizing /\ Live = {}
        /\ Pending = {} /\ Len(observed) < 5) =>
        /\ observed = <<Idle, Analyzing, Synthesizing, Error>>
        /\ status = Error
        /\ audioSourceRef = 0
        /\ resultContent \in AiTexts
        /\ resultTitle = ScriptTitle

C6_Witness ==
    /\ observed = <<Idle, Analyzing, Synthesizing, Error>>
    /\ errorMessage = SpeechFailedMsg
    /\ resultContent \in AiTexts
    /\ Live = {}

\* C7: every failing step of an action sets status Error with a non-empty
\* message and ends the action: its invocation is gone and it starts no source.
FailingStep(t) ==
    \/ /\ t.pc \in {"analysis", "summarize", "answer"}
       /\ \E resp \in TextResponses :
             /\ resp.apiError
             /\ AnalysisReturns(t, resp) \/ SummarizeReturns(t, resp) \/ AnswerReturns(t, resp)
    \/ /\ t.pc = "speech"
       /\ \E resp \in SpeechResponses, made \in PlatformOutcomes :
             /\ resp.apiError \/ ~resp.data.present \/ (~audioContextRef /\ ~made.ok)
             /\ SpeechReturns(t, resp, made)
    \/ /\ t.pc = "resume"
       /\ \E resumed \in PlatformOutcomes :
             /\ ~resumed.ok \/ ~t.payload.b64ok
             /\ ResumeReturns(t, resumed)
    \/ /\ t.pc = "decode"
       /\ t.payload.nbytes % (2 * Channels) # 0
       /\ DecodeReturns(t)

C7_FailureHalts ==
    [][ \A t \in Pending :
            FailingStep(t) =>
                /\ status' = Error
                /\ errorMessage' # ""
                /\ tasks' = Without(t)
                /\ sources' = sources
                /\ audioSourceRef' = audioSourceRef ]_vars

C7_Witness ==
    /\ status = Error
    /\ errorMessage = UnknownErrorMsg
    /\ resultContent \in AiTexts
    /\ Pending = {}

\* C8: right after an accepted analyze or summarize submission no source is
\* sounding, the session reference is empty and the exchange log is empty.
C8_SubmitSilences ==
    [][ AcceptedSubmit =>
            (Sounding' = {} /\ audioSourceRef' = 0 /\ qaHistory' = << >>) ]_vars

\* C9: submitting a question leaves the sources, the session reference, the
\* displayed result and the exchange log as they are, and a successful answer
\* appends exactly the pair of that question and its answer to the log.
C9_AnswerAppends ==
    [][ /\ AskQuestion =>
              /\ sources' = sources
              /\ audioSourceRef' = audioSourceRef
              /\ resultContent' = resultContent
              /\ resultTitle' = resultTitle
              /\ qaHistory' = qaHistory
        /\ \A t \in Pending : \A resp \in TextResponses :
              (~resp.apiError /\ AnswerReturns(t, resp)) =>
                  /\ qaHistory' = qaHistory \o
                                    <<[question |-> t.question, answer |-> resp.text]>>
                  /\ sources' = sources
                  /\ audioSourceRef' = audioSourceRef
                  /\ resultContent' = resultContent ]_vars

C9_Witness ==
    /\ Len(qaHistory) = 2
    /\ Sounding # {}
    /\ audioSourceRef # 0
    /\ status = Idle

\* C10: once the status is Error it stays Error, with the same message, until
\* the user submits analyze, summarize or a question.
C10_ErrorUntilUserAction ==
    [][ status = Error =>
            \/ status' = Error /\ errorMessage' = errorMessage
            \/ AnalyzeStep \/ SummarizeStep \/ AskQuestion ]_vars

\* C11: the busy flag is true exactly in Analyzing, Synthesizing, Summarizing
\* and Answering, and no analyze or summarize handler starts in these states.
BusyStates == {Analyzing, Synthesizing, Summarizing, Answering}

C11_BusyRejectsSubmit ==
    [][ /\ isProcessing <=> status \in BusyStates
        /\ (AnalyzeStep \/ SummarizeStep) => status \notin BusyStates ]_vars

C11_Witness ==
    /\ status = Answering
    /\ ~IsBlank(inputText)
    /\ BagCardinality(tasks) < MaxTasks
    /\ Cardinality(Live) + Count(AnalyzePcs) < MaxSources
    /\ ~ENABLED AnalyzeStep
    /\ ~ENABLED SummarizeStep

\* C12: every change of the status is a transition of the specified table or
\* a validation failure to Error (a submission made while Playing counts as
\* the stop transition followed by the submit transition).
TransitionTable ==
    {<<Idle, Analyzing>>, <<Error, Analyzing>>,
     <<Analyzing, Synthesizing>>, <<Analyzing, Error>>,
     <<Synthesizing, Playing>>, <<Synthesizing, Error>>,
     <<Playing, Idle>>,
     <<Idle, Summarizing>>, <<Error, Summarizing>>,
     <<Summarizing, Idle>>, <<Summarizing, Error>>,
     <<Idle, Answering>>,
     <<Answering, Idle>>, <<Answering, Error>>}

C12_TableTransitionsOnly ==
    [][ status' # status =>
            \/ <<status, status'>> \in TransitionTable
            \/ (AnalyzeStep \/ SummarizeStep) /\ WhitespaceOnly(inputText)
                   /\ status' = Error
            \/ AcceptedSubmit /\ status = Playing ]_vars

\* C13: a question submission starts an answer action only when the status
\* is Idle and a result text is loaded.
C13_AnswerOnlyFromIdle ==
    [][ (AskQuestion /\ tasks' # tasks) =>
            (status = Idle /\ resultContent # "") ]_vars

\* C14: right after an accepted analyze or summarize submission the audio
\* kept for export is empty.
C14_SubmitDiscardsAudio ==
    [][ AcceptedSubmit => ~audioBuffer'.present ]_vars

\* C15: record(entry) on a log h yields entry, then the elements of h that
\* differ from entry in their order, cut to the first 20; and what is
\* written to the store is the JSON form of exactly that sequence.
RECURSIVE Others(_, _)
Others(h, entry) ==
    IF h = << >> THEN << >>
    ELSE IF Head(h) = entry THEN Others(Tail(h), entry)
    ELSE <<Head(h)>> \o Others(Tail(h), entry)

FirstN(seq, n) == [i \in 1..(IF Len(seq) < n THEN Len(seq) ELSE n) |-> seq[i]]
RecordOf(entry, h) == FirstN(<<entry>> \o Others(h, entry), 20)

C15_RecordResult ==
    [][ (AcceptedSubmit /\ history.type = "array") =>
            /\ history'.type = "array"
            /\ history'.items = RecordOf(inputText, history.items)
            /\ \/ stored' = stored
               \/ /\ stored'.kind = "json"
                  /\ JSONparse(stored').value =
                         Arr(RecordOf(inputText, history.items)) ]_vars

C15_Witness ==
    /\ history.type = "array"
    /\ Len(history.items) = 20
    /\ history.items[1] = <<"a">>
    /\ history.items[20] = OldTexts(19)[19]
    /\ stored = JSONstringify(history)
    /\ status = Analyzing

\* C16: after a record operation on any loaded sequence the log holds at most
\* 20 strings, pairwise distinct, with the recorded one in front.
Distinct(seq) == \A i, j \in 1..Len(seq) : i # j => seq[i] # seq[j]

C16_LogBoundedDistinct ==
    [][ (AcceptedSubmit /\ history.type = "array") =>
            /\ Len(history'.items) <= 20
            /\ Distinct(history'.items)
            /\ history'.items[1] = inputText ]_vars

\* C17: load yields a sequence of strings for every content of the store.
C17_LoadYieldsSequence ==
    /\ history.type = "array"
    /\ loadHistory(stored).type = "array"

\* C18: an accepted analyze or summarize submission proceeds to its external
\* call whatever the store does: the status is busy and one more call is
\* pending.
C18_StoreFailureSwallowed ==
    [][ AcceptedSubmit =>
            /\ status' \in {Analyzing, Summarizing}
            /\ Count(AiCallPcs)' = Count(AiCallPcs) + 1 ]_vars

C20_StopIdempotent ==
    LET once == stopPlayback
        twice == stopPlaybackOn(once.sources, once.ref, once.status)
    IN  /\ twice = once
        /\ audioSourceRef = 0 =>
               once = [sources |-> sources, ref |-> audioSourceRef, status |-> status]

C20_Witness ==
    /\ audioSourceRef = 0
    /\ status = Idle
    /\ \E s \in SourceIds : sources[s].state = "stopped"

\* C21: a step that sets a result title stores, in that same step, the text
\* of that kind which its call returned; and after a failed analysis or
\* summarize call the result title and the result text are both empty.
FailedTextCall(t) ==
    \E resp \in TextResponses :
        /\ resp.apiError
        /\ AnalysisReturns(t, resp) \/ SummarizeReturns(t, resp)

C21_NoPartialResult ==
    [][ /\ (resultTitle' # resultTitle /\ resultTitle' # "") =>
              \E t \in Pending, resp \in TextResponses :
                  /\ ~resp.apiError
                  /\ resultContent' = resp.text
                  /\ \/ AnalysisReturns(t, resp) /\ resultTitle' = ScriptTitle
                     \/ SummarizeReturns(t, resp) /\ resultTitle' = SummaryTitle
        /\ \A t \in Pending :
              FailedTextCall(t) => (resultTitle' = "" /\ resultContent' = "") ]_vars

\* C22: within an analyze action the speech call is issued only when the
\* analysis call has returned successfully, with exactly the script it
\* returned, and a source is started only by an invocation whose speech call
\* has returned a payload and whose decode has succeeded.
C22_StepsInOrder ==
    [][ /\ \A u \in BagToSet(tasks') :
              (u.pc = "speech" /\ CopiesIn(u, tasks') > CopiesIn(u, tasks)) =>
                  \E t \in Pending, resp \in TextResponses :
                      /\ t.pc = "analysis"
                      /\ ~resp.apiError
                      /\ AnalysisReturns(t, resp)
                      /\ u.script = resp.text
        /\ Len(sources') > Len(sources) =>
              \E t \in Pending :
                  /\ t.pc = "decode"
                  /\ t.script \in AiTexts
                  /\ t.payload.present /\ t.payload.b64ok
                  /\ t.payload.nbytes % 2 = 0
                  /\ DecodeReturns(t) ]_vars

C22_Witness ==
    /\ observed = <<Idle, Analyzing, Synthesizing, Playing>>
    /\ status = Playing
    /\ Sounding = {audioSourceRef}
    /\ Pending = {}

\* C23: a volume or speed change made while a source is sounding leaves the
\* sounding sources and the status as they are, and afterwards the gain
\* (the rate of each sounding source) is the new value.
VolumeStep == \E raw \in Volumes : handleVolumeChange(raw)
RateStep == \E raw \in Rates : handlePlaybackRateChange(raw)

C23_RetuneInPlace ==
    [][ ((VolumeStep \/ RateStep) /\ Sounding # {}) =>
            /\ Sounding' = Sounding
            /\ status' = status
            /\ audioSourceRef' = audioSourceRef
            /\ VolumeStep => gainNodeRef'.gain = volume'
            /\ RateStep => \A s \in Sounding : sources'[s].rate = playbackRate' ]_vars

\* C24: a call of a collaborator is issued only by an accepted submission
\* (one analysis, one summarize or one answer call) or by the analyze action
\* whose analysis call returned (its one speech call), and a failing step
\* leaves no call of its action behind.
IssuedCalls ==
    {u \in BagToSet(tasks') :
        u.pc \in AiCallPcs /\ CopiesIn(u, tasks') > CopiesIn(u, tasks)}

C24_NoRetry ==
    [][ /\ \A u \in IssuedCalls :
              /\ CopiesIn(u, tasks') = CopiesIn(u, tasks) + 1
              /\ IssuedCalls = {u}
              /\ \/ u.pc = "analysis" /\ AnalyzeStep /\ ~WhitespaceOnly(inputText)
                 \/ u.pc = "summarize" /\ SummarizeStep /\ ~WhitespaceOnly(inputText)
                 \/ u.pc = "answer" /\ AskQuestion /\ ~WhitespaceOnly(question)
                 \/ /\ u.pc = "speech"
                    /\ \E t \in Pending, resp \in TextResponses :
                          t.pc = "analysis" /\ AnalysisReturns(t, resp)
                    /\ BagCardinality(tasks') = BagCardinality(tasks)
        /\ \A t \in Pending :
              FailingStep(t) =>
                  /\ IssuedCalls = {}
                  /\ BagCardinality(tasks') = BagCardinality(tasks) - 1
                  /\ CopiesIn(t, tasks') = CopiesIn(t, tasks) - 1 ]_vars

C24_Witness ==
    /\ status = Error
    /\ errorMessage = SummarizeFailedMsg
    /\ Pending = {}

\* C25: the history and the stored history change only in an accepted
\* analyze or summarize submission, which puts the submitted input text in
\* front; every other step leaves both unchanged.
C25_HistoryFrame ==
    [][ (history' # history \/ stored' # stored) =>
            /\ AcceptedSubmit
            /\ history'.items[1] = inputText
            /\ stored' # stored => stored' = JSONstringify(history') ]_vars

C25_Witness ==
    /\ Len(qaHistory) = 1
    /\ history = Arr(<<<<"a">>>>)
    /\ stored = JSONstringify(history)
    /\ status = Idle
    /\ Pending = {}


\* the 16-bit samples PCM bytes hold, in the order of the bytes
Samples16(bytes) ==
    [k \in 1..(Len(bytes) \div 2) |->
        LET u == bytes[2 * k - 1] + 256 * bytes[2 * k]
        IN  IF u < 32768 THEN u ELSE u - 65536]

\* the samples of a buffer in frame order, channel after channel per frame
Interleaved(channels) ==
    [k \in 1..(IF channels = << >> THEN 0 ELSE Len(channels) * Len(channels[1])) |->
        channels[((k - 1) % Len(channels)) + 1][((k - 1) \div Len(channels)) + 1]]

\* a 16-bit PCM WAV file as a standard decoder reads it: the header fields
\* checked, then the samples of the data chunk
IsWav(file) ==
    /\ Len(file) >= WavHeaderLen
    /\ SubSeq(file, 1, 4) = <<82, 73, 70, 70>>
    /\ SubSeq(file, 5, 8) = LE32(Len(file) - 8)
    /\ SubSeq(file, 9, 16) = <<87, 65, 86, 69, 102, 109, 116, 32>>
    /\ SubSeq(file, 17, 22) = <<16, 0, 0, 0, 1, 0>>
    /\ SubSeq(file, 35, 36) = <<16, 0>>
    /\ SubSeq(file, 37, 40) = <<100, 97, 116, 97>>
    /\ SubSeq(file, 41, 44) = LE32(Len(file) - WavHeaderLen)
WavSamples(file) == Samples16(SubSeq(file, WavHeaderLen + 1, Len(file)))

WithinOneStep(xs, ys) ==
    /\ Len(xs) = Len(ys)
    /\ \A k \in 1..Len(xs) : xs[k] - ys[k] \in {-1, 0, 1}

DecodeStep == ~audioBuffer.present /\ audioBuffer'.present
AudioDownloadStep == downloaded' # downloaded /\ downloaded'.name = "explanation.wav"

\* C26: the round trip of the codec. The buffer decoded from the base64 text
\* of PCM bytes of even length holds exactly the 16-bit samples of those
\* bytes, and the WAV file made of a buffer is a valid 16-bit WAV file whose
\* samples are each within one quantization step of the buffer's.
C26_RoundTrip ==
    [][ /\ DecodeStep =>
              \A t \in Pending :
                 t.pc = "decode" /\ t \notin BagToSet(tasks') =>
                    Interleaved(audioBuffer'.channels) = Samples16(t.payload.pcm)
        /\ AudioDownloadStep =>
              /\ IsWav(downloaded'.bytes)
              /\ WithinOneStep(WavSamples(downloaded'.bytes),
                               Interleaved(audioBuffer.channels)) ]_vars

\* a file was saved of a buffer whose two samples, the least and the
\* greatest 16-bit values, came back as -32767 and 32766
C26_Witness ==
    /\ downloaded.name = "explanation.wav"
    /\ audioBuffer.present
    /\ Interleaved(audioBuffer.channels) = <<-32768, 32767>>
    /\ WavSamples(downloaded.bytes) = <<-32767, 32766>>


\* an invocation waiting for the decoding of bytes that are no whole frames
BrokenFrames(t) ==
    /\ t.pc = "decode"
    /\ IsBase64(t.payload.data)
    /\ Len(t.payload.pcm) % (2 * Channels) # 0

\* C27: decoding bytes whose number is not a multiple of 2 * channels fails
\* with DecodeError, and the analyze action then ends in Error with that
\* message, without a source started, referenced or a buffer kept.
C27_DecodeErrorHalts ==
    [][ \A t \in Pending :
          (BrokenFrames(t) /\ DecodeReturns(t)) =>
              /\ status' = Error
              /\ errorMessage' = "DecodeError"
              /\ sources' = sources
              /\ audioSourceRef' = audioSourceRef
              /\ audioBuffer' = audioBuffer
              /\ t \notin BagToSet(tasks') \/ CopiesIn(t, tasks') < CopiesIn(t, tasks) ]_vars

\* the synthesis of a first submission failed on three bytes
C27_Witness ==
    /\ status = Error
    /\ errorMessage = "DecodeError"
    /\ observed = <<Idle, Analyzing, Synthesizing, Error>>
    /\ sources = << >>
    /\ ~audioBuffer.present
    /\ Pending = {}


\* C28: every pair of the exchange log was submitted after the most recent
\* accepted analyze or summarize submission. The completion of an answer
\* call appends its pair whatever happened since the call was issued, so
\* this is: no answer call is pending when a submission is accepted, and
\* the log then starts empty.
C28_LogOfCurrentText ==
    [][ AcceptedSubmit =>
            /\ qaHistory' = << >>
            /\ \A t \in BagToSet(tasks') : t.pc # "answer" ]_vars

\* C29: the context text passed to the answer call is the text submitted by
\* the most recent accepted analyze or summarize action, which is the first
\* entry of the history, whatever the input field holds by then.
C29_ContextIsSubmittedText ==
    [][ (AskQuestion /\ tasks' # tasks) =>
            AnswerContext = history.items[1] ]_vars


\* the exit paths of a playback session: the stop button, the ended callback
\* of a source, an accepted submission
ExitStep == StopClick \/ AcceptedSubmit \/ \E s \in SourceIds : OnEnded(s)

\* C30: every sounding source is the one the session reference holds, and
\* after the stop button, an ended callback or an accepted submission no
\* source is sounding and the session reference is empty.
C30_SoundingIsReferenced ==
    [][ /\ \A s \in Sounding' : s = audioSourceRef'
        /\ ExitStep => (Sounding' = {} /\ audioSourceRef' = 0) ]_vars


\* C31: while an external AI call is pending the status is Analyzing,
\* Synthesizing, Summarizing or Answering, never Idle, Playing or Error.
C31_BusyWhileCallPending ==
    Count(AiCallPcs) > 0 => status \in BusyStates


\* C32: whenever a source is sounding its rate is the selected playbackRate
\* and the gain of the gain node is the selected volume, also when a slider
\* was moved between the submission and the start of the source.
C32_SoundingFollowsSliders ==
    Sounding # {} =>
        /\ \A s \in Sounding : sources[s].rate = playbackRate
        /\ gainNodeRef.gain = volume


\* C33: an error message is held exactly while the status is Error.
C33_MessageIffError ==
    errorMessage # "" <=> status = Error


\* the workflow at rest
Settled ==
    /\ status \in {Idle, Error}
    /\ Pending = {}
    /\ Sounding = {}

\* C34: when every call returns, every source ends and the user stops
\* submitting, the workflow reaches Idle or Error with no call pending and
\* no source sounding, and stays there.
C34_EventuallySettles ==
    []<><<AnalyzeStep \/ SummarizeStep \/ AskQuestion>>_vars \/ <>[]Settled


\* C35: when the answer call fails the status becomes Error with a non-empty
\* message, and the exchange log, the displayed result, the audio kept for
\* export and the typed question stay as they are.
C35_FailedAnswerKeepsAll ==
    [][ \A t \in Pending : \A resp \in TextResponses :
          (t.pc = "answer" /\ resp.apiError /\ AnswerReturns(t, resp)) =>
              /\ status' = Error
              /\ errorMessage' # ""
              /\ qaHistory' = qaHistory
              /\ resultContent' = resultContent
              /\ resultTitle' = resultTitle
              /\ audioBuffer' = audioBuffer
              /\ question' = question ]_vars

\* a second question about a played script failed: the first pair, the
\* script, the audio and the typed question are still there
C35_Witness ==
    /\ status = Error
    /\ errorMessage = AnswerFailedMsg
    /\ question = <<"q">>
    /\ Len(qaHistory) = 1
    /\ resultTitle = ScriptTitle
    /\ audioBuffer.present
    /\ Pending = {}


\* C36: a question that is empty or only whitespace can be submitted
\* wherever the form is enabled, and the submission changes nothing: no
\* call is issued and the status, the message, the log and the result stay
\* as they are.
C36_BlankQuestionIgnored ==
    (resultContent # "" /\ status # Answering /\ WhitespaceOnly(question)) =>
        /\ ENABLED AskQuestion
        /\ ~ENABLED <<AskQuestion>>_vars

\* a question of one space typed under a displayed result after an error
C36_Witness ==
    /\ resultContent # ""
    /\ question = <<Space>>
    /\ status = Error
    /\ ENABLED AskQuestion

====
